---------------------------- MODULE Spec2Model ----------------------------
(***************************************************************************)
(* Audio-reactive visualizer (package audio): the Visualizer's lifecycle   *)
(* (Start / Stop / supervisor goroutine), the capture session and loop     *)
(* (startCapture, watchEvent) and the processing pipeline (process: the    *)
(* single-flight guard, the rolling history pixs, the recency-weighted     *)
(* smoothing, the segment distribution and the event emission).            *)
(*                                                                         *)
(* Abstractions.  The spectral analysis and the color synthesis            *)
(* (part_000:348-492) are floating-point code whose only output is the raw *)
(* PixelFrame pix: maxLedCount pixels of four bytes, alpha 0xFF.  The      *)
(* samples of a call are not kept: the raw frame they give is drawn from   *)
(* Frames when the call computes it.  OS calls succeed or fail             *)
(* nondeterministically.  The configuration (the options passed to New)    *)
(* is drawn from Configs: every segment fits in the frame                  *)
(* (Leds <= maxLedCount) and windowSize >= 1.  One client goroutine calls  *)
(* Start and Stop, one call at a time.                                     *)
(*                                                                         *)
(* Specifications.  Spec is the whole program.  LifeSpec is its lifecycle  *)
(* half (client, supervisors, capture sessions) and FairLifeSpec adds the  *)
(* scheduling; PipeSpec is its pipeline half (the process goroutines and   *)
(* the consumer) under every configuration.  StallSpec is a run whose      *)
(* consumer has stopped reading, taken up one event short of a full        *)
(* channel, and FairStallSpec adds the scheduling.  DecodeSpec follows one *)
(* fetched buffer through the decoding and the sizing of the warped axis.  *)
(* TwoSpec runs the pipelines of two Visualizers of one process.           *)
(***************************************************************************)
EXTENDS Integers, Sequences, FiniteSets, TLC

\* ------------------------------------------------------------- bounds
MaxStarts == 2      \* calls of Start in one run
MaxFetch == 1       \* data buffers the capture source delivers in a run
MaxCalls == 3       \* process goroutines (PipeSpec dispatches this many)
MaxWindow == 2      \* largest configured windowSize
NumMarkers == 2     \* distinct raw frames the color stage can produce
MaxFrames == 2      \* largest availableFrameSize of a fetched buffer

\* ------------------------------------------------ program constants
ChannelFactor == 8  \* events channel capacity per segment
BytesPerPixel == 4  \* R, G, B, A
Alpha == 255        \* 0xFF
BlockAlign == 4     \* wfx.NBlockAlign: 16 bits, two channels
SampleStride == 4   \* bytes read per sample

Sups == 1..MaxStarts
Procs == 1..MaxCalls
NoSup == 0          \* nil CancelFunc / nil channel

\* ------------------------------------------------------ configuration
Segment(id, leds) == [Id |-> id, Leds |-> leds]

SegmentLayouts ==
    { <<Segment(0, 1)>>,
      <<Segment(0, 1), Segment(1, 2)>> }

RECURSIVE SumLeds(_)
SumLeds(segs) ==
    IF segs = <<>> THEN 0 ELSE Head(segs).Leds + SumLeds(Tail(segs))

\* The options passed to New.  maxLedCount is at least every segment's Leds
\* (a longer segment indexes past pix3 at line 538) and at least 2 (line 412
\* divides by maxLedCount - 1).
Configs ==
    { [segments |-> segs, maxLedCount |-> n, windowSize |-> w] :
        segs \in SegmentLayouts,
        n \in {2, 3},
        w \in 1..MaxWindow }

DefaultConfig ==
    [segments |-> <<Segment(0, 1)>>, maxLedCount |-> 2, windowSize |-> 2]

VARIABLES
    cfg,          \* the Visualizer's configuration (segments, maxLedCount, windowSize)
    cancel,       \* v.cancel: NoSup (nil) or the supervisor whose context it cancels
    done,         \* v.done: NoSup (nil channel) or the channel made by that Start
    nStarts,      \* Start calls so far (supervisor s is spawned by the s-th call)
    clientPc,     \* the client goroutine: "idle" or "recvDone" (blocked in <-v.done)
    stopSignalled, \* history: the latest Stop call found v.cancel set and called it
    supPc,        \* supervisor goroutine s: its position
    ctxDone,      \* ctx of supervisor s is cancelled (childCtx follows it)
    held,         \* OS handles the session of supervisor s holds
    isCapturing,  \* startCapture's local isCapturing
    errorChan,    \* startCapture's errorChan: "empty" or the value the watcher sent
    sendChan,     \* the channel v.done evaluated to at the supervisor's send
    nFetched,     \* data buffers fetched so far
    processing,   \* v.processing, the single-flight flag
    pixs,         \* the package-level history
    events,       \* v.events, the buffered output channel
    proc,         \* process goroutine p: [pc, pix, ev]
    nDispatched,  \* go v.process(...) statements executed so far
    arrivedBy,    \* history log: the calls that appended to pixs, in order
    emitted,      \* history log: the events sent on v.events, in order
    buf,          \* startCapture's buf: the bytes copied out of a fetched buffer
    samples,      \* startCapture's samples, the argument of process
    nPoints,      \* SpanLog's nPoints
    frontPc,      \* where the buffer is: "none", "copied", "decoded", "axis"
    other         \* a second Visualizer of the same process: its flag and its call

lifeVars == <<cancel, done, nStarts, clientPc, stopSignalled>>
supVars == <<supPc, ctxDone, held, isCapturing, errorChan, sendChan, nFetched>>
pipeVars == <<processing, pixs, events, proc, arrivedBy, emitted>>
frontVars == <<buf, samples, nPoints, frontPc>>
vars == <<cfg, lifeVars, supVars, pipeVars, nDispatched, frontVars, other>>


\* ------------------------------------------------------------ pipeline
\* The raw PixelFrame of marker m for n LEDs: what lines 425-492 build, four
\* bytes per LED with alpha 0xFF (line 491).
RawFrame(m, n) ==
    [j \in 1..(n * BytesPerPixel) |->
        IF j % BytesPerPixel = 0 THEN Alpha ELSE (m * 90 + j * 7) % 256]

Frames(n) == { RawFrame(m, n) : m \in 1..NumMarkers }

NoFrame == <<>>
NoEvent == <<>>

\* uint8(x) of a non-negative value
ToUint8(x) == x % 256

\* a history that drops the newest frame when over windowSize
AppendHistoryDropNewest(h, pix, w) ==
    LET a == Append(h, pix)
    IN  IF Len(a) > w THEN SubSeq(a, 1, Len(a) - 1) ELSE a

\* lines 494-497: append, then drop the oldest when over windowSize
AppendHistory(h, pix, w) ==
    LET a == Append(h, pix)
    IN  IF Len(a) > w THEN Tail(a) ELSE a

\* a weight that squares the index itself, not the index plus one
WeightZeroBased(i, L) == i * i + L * L

\* a weight that favours the oldest item
WeightOldestFirst(i, L) == (L - i) * (L - i) + L * L

\* line 504: the weight of history item i (0 = oldest) in a history of length L
Weight(i, L) == (i + 1) * (i + 1) + L * L

RECURSIVE WeightsTotal(_, _)
WeightsTotal(k, L) ==
    IF k = 0 THEN 0 ELSE Weight(k - 1, L) + WeightsTotal(k - 1, L)

\* lines 510-515: pix2[j], the weighted sum over the first k history items
RECURSIVE WeightedSum(_, _, _)
WeightedSum(h, k, j) ==
    IF k = 0 THEN 0
    ELSE h[k][j] * Weight(k - 1, Len(h)) + WeightedSum(h, k - 1, j)

\* lines 517-521: pix3, the weighted average of every byte position of pix.
\* The sums are exact in float64 and the quotient is truncated by uint8() at
\* lines 538-541, so pix3 is kept as the truncated quotient.
Smooth(h, pix) ==
    [j \in 1..Len(pix) |-> WeightedSum(h, Len(h), j) \div WeightsTotal(Len(h), Len(h))]

\* the mirrored index of the commented-out lines 534-536: the second half of
\* a segment reads the first half backwards, pixel by pixel
SegmentOffsetMirrored(segs, k, i) ==
    LET length == segs[k].Leds * BytesPerPixel
        b == i - 1
        px == b - (b % BytesPerPixel)
    IN  IF px >= length \div 2 /\ length > BytesPerPixel
        THEN (length - BytesPerPixel - px) + (b % BytesPerPixel) + 1
        ELSE i

\* line 530: offset := i, the index into pix3 read for byte i of a segment
\* (bytes are numbered from 1 here)
SegmentOffset(segs, k, i) == i

\* lines 525-560: one (Id, Pix) per configured segment, in declared order
Distribute(pix3, segs) ==
    [k \in 1..Len(segs) |->
        [Id |-> segs[k].Id,
         Pix |-> [i \in 1..(segs[k].Leds * BytesPerPixel) |->
                    ToUint8(pix3[SegmentOffset(segs, k, i)])]]]

\* line 594
Capacity == Len(cfg.segments) * ChannelFactor

NoProc == [pc |-> "none", pix |-> NoFrame, ev |-> NoEvent]

\* line 255: go v.process(samples, peak)
Spawn ==
    /\ nDispatched' = nDispatched + 1
    /\ proc' = [proc EXCEPT ![nDispatched + 1].pc = "enter"]

\* a guard that is not checked: every call takes the flag
ProcessEnterUnguarded(p) ==
    /\ proc[p].pc = "enter"
    /\ processing' = TRUE
    /\ proc' = [proc EXCEPT ![p].pc = "history"]
    /\ UNCHANGED <<cfg, frontVars, other, lifeVars, supVars, nDispatched, pixs, events, arrivedBy, emitted>>

\* a release of the flag deferred before the guard: a skipped call clears it
ProcessEnterClearing(p) ==
    /\ proc[p].pc = "enter"
    /\ IF processing
       THEN /\ proc' = [proc EXCEPT ![p].pc = "skipped"]
            /\ processing' = FALSE
       ELSE /\ processing' = TRUE
            /\ proc' = [proc EXCEPT ![p].pc = "history"]
    /\ UNCHANGED <<cfg, frontVars, other, lifeVars, supVars, nDispatched, pixs, events, arrivedBy, emitted>>

\* lines 333-340: the single-flight guard under v.mux
ProcessEnter(p) ==
    /\ proc[p].pc = "enter"
    /\ IF processing
       THEN /\ proc' = [proc EXCEPT ![p].pc = "skipped"]
            /\ UNCHANGED processing
       ELSE /\ processing' = TRUE
            /\ proc' = [proc EXCEPT ![p].pc = "history"]
    /\ UNCHANGED <<cfg, frontVars, other, lifeVars, supVars, nDispatched, pixs, events, arrivedBy, emitted>>

\* lines 348-497: the spectral and color stages build the raw frame pix of
\* the call's samples, and pix is appended to the history
ProcessHistory(p) ==
    /\ proc[p].pc = "history"
    /\ \E pix \in Frames(cfg.maxLedCount) :
        /\ pixs' = AppendHistory(pixs, pix, cfg.windowSize)
        /\ proc' = [proc EXCEPT ![p].pc = "smooth", ![p].pix = pix]
    /\ arrivedBy' = Append(arrivedBy, p)
    /\ UNCHANGED <<cfg, frontVars, other, lifeVars, supVars, nDispatched, processing, events, emitted>>

\* lines 499-560
ProcessSmooth(p) ==
    /\ proc[p].pc = "smooth"
    /\ proc' = [proc EXCEPT
                  ![p].pc = "send",
                  ![p].ev = [Segments |-> Distribute(Smooth(pixs, proc[p].pix), cfg.segments),
                             by |-> p]]
    /\ UNCHANGED <<cfg, frontVars, other, lifeVars, supVars, nDispatched, processing, pixs, events,
                   arrivedBy, emitted>>

\* lines 562-565: the send blocks while the channel is full
ProcessSend(p) ==
    /\ proc[p].pc = "send"
    /\ Len(events) < Capacity
    /\ events' = Append(events, proc[p].ev)
    /\ emitted' = Append(emitted, proc[p].ev)
    /\ proc' = [proc EXCEPT ![p].pc = "exit"]
    /\ UNCHANGED <<cfg, frontVars, other, lifeVars, supVars, nDispatched, processing, pixs, arrivedBy>>

\* lines 342-346: the deferred release of the flag
ProcessExit(p) ==
    /\ proc[p].pc = "exit"
    /\ processing' = FALSE
    /\ proc' = [proc EXCEPT ![p].pc = "done"]
    /\ UNCHANGED <<cfg, frontVars, other, lifeVars, supVars, nDispatched, pixs, events, arrivedBy, emitted>>

\* the consumer of Events() receives one event
Consume ==
    /\ events # <<>>
    /\ events' = Tail(events)
    /\ UNCHANGED <<cfg, frontVars, other, lifeVars, supVars, nDispatched, processing, pixs, proc,
                   arrivedBy, emitted>>

\* the capture loop's only effect on the pipeline: line 255, once per buffer
PipeDispatch ==
    /\ nDispatched < MaxCalls
    /\ Spawn
    /\ UNCHANGED <<cfg, frontVars, other, lifeVars, supVars, processing, pixs, events, arrivedBy, emitted>>


\* ------------------------------------------------------------ front end
\* the byte values a buffer is filled with
ByteValues == {0, 1, 255}

\* lines 233-239: buf, the availableFrameSize * NBlockAlign bytes copied out
\* of a fetched buffer
Buffers ==
    UNION { [1..(n * BlockAlign) -> ByteValues] : n \in 1..MaxFrames }

\* lines 298-302: int32(uint32(b[0]) | b[1]<<8 | b[2]<<16 | b[3]<<24); the
\* conversion to int32 makes the top byte a signed one
readInt32(b) ==
    LET low == b[1] + b[2] * 256 + b[3] * 65536
        top == IF b[4] >= 128 THEN b[4] - 256 ELSE b[4]
    IN  top * 16777216 + low

\* lines 243-247: make([]float64, len(buf)/4) is a slice of that many zeros,
\* and the loop appends one value per 4-byte unit to it
DecodeSamples(b) ==
    LET n == Len(b) \div SampleStride
    IN  [i \in 1..n |-> 0] \o
        [i \in 1..n |->
            readInt32(SubSeq(b, SampleStride * (i - 1) + 1, SampleStride * i))]

\* line 363: fft.Coefficients gives n/2 + 1 coefficients for n real samples
NumCoefficients(n) == n \div 2 + 1

\* line 367: coeff = coeff[:len(coeff)/2]
HalfSpectrum(n) == NumCoefficients(n) \div 2

\* lines 243-247
Decode ==
    /\ frontPc = "copied"
    /\ samples' = DecodeSamples(buf)
    /\ frontPc' = "decoded"
    /\ UNCHANGED <<cfg, buf, nPoints, other, lifeVars, supVars, pipeVars, nDispatched>>

\* lines 362-406: the spectrum of the samples, halved, is f.Y, and SpanLog
\* is called with nPoints = len(f.Y)
SpectrumAxis ==
    /\ frontPc = "decoded"
    /\ nPoints' = HalfSpectrum(Len(samples))
    /\ frontPc' = "axis"
    /\ UNCHANGED <<cfg, buf, samples, other, lifeVars, supVars, pipeVars, nDispatched>>

\* -------------------------------------------------- a second Visualizer
\* A second Visualizer made by New in the same process, with the same
\* options, has its own mux, processing flag and events channel (lines
\* 28-45) and the one package-level pixs (line 577).  Its process calls are
\* taken one at a time; what it sends goes to its own channel.

\* a second Visualizer that was not constructed
NoOther == [pc |-> "absent", processing |-> FALSE, pix |-> NoFrame, out |-> NoFrame, nCalls |-> 0]

\* lines 333-340 on the second Visualizer: its own flag is clear
OtherEnter ==
    /\ other.pc = "idle"
    /\ ~other.processing
    /\ other.nCalls < MaxCalls
    /\ other' = [other EXCEPT !.pc = "history", !.processing = TRUE, !.nCalls = @ + 1]
    /\ UNCHANGED <<cfg, frontVars, lifeVars, supVars, pipeVars, nDispatched>>

\* lines 348-497 on the second Visualizer: its frame is appended to pixs
\* (logged as call 0)
OtherHistory ==
    /\ other.pc = "history"
    /\ \E pix \in Frames(cfg.maxLedCount) :
        /\ pixs' = AppendHistory(pixs, pix, cfg.windowSize)
        /\ other' = [other EXCEPT !.pc = "smooth", !.pix = pix]
    /\ arrivedBy' = Append(arrivedBy, 0)
    /\ UNCHANGED <<cfg, frontVars, lifeVars, supVars, nDispatched, processing, events,
                   proc, emitted>>

\* lines 499-521 on the second Visualizer: it smooths over pixs
OtherSmooth ==
    /\ other.pc = "smooth"
    /\ other' = [other EXCEPT !.pc = "send", !.out = Smooth(pixs, other.pix)]
    /\ UNCHANGED <<cfg, frontVars, lifeVars, supVars, pipeVars, nDispatched>>

\* lines 562-565 and 342-346 on the second Visualizer: the event goes to its
\* own channel and its flag is released
OtherExit ==
    /\ other.pc = "send"
    /\ other' = [other EXCEPT !.pc = "idle", !.processing = FALSE]
    /\ UNCHANGED <<cfg, frontVars, lifeVars, supVars, pipeVars, nDispatched>>

\* ----------------------------------------------------- capture session
\* The fallible calls of the session setup, lines 91-185, in order.
SetupCalls ==
    << "CoInitializeEx", "CoCreateInstance", "GetDefaultAudioEndpoint",
       "OpenPropertyStore", "ActivateAudioClient", "ActivateMeter",
       "GetMixFormat", "GetDevicePeriod", "Initialize", "SetEventHandle",
       "GetBufferSize", "GetService", "Start" >>

\* The resource a call leaves acquired when it succeeds ("none": nothing).
\* CreateEventExA (line 155) follows Initialize and is not checked.
Acquires(call) ==
    CASE call = "CoInitializeEx" -> "com"
      [] call = "CoCreateInstance" -> "enumerator"
      [] call = "GetDefaultAudioEndpoint" -> "endpoint"
      [] call = "OpenPropertyStore" -> "propertyStore"
      [] call = "ActivateAudioClient" -> "audioClient"
      [] call = "ActivateMeter" -> "meter"
      [] call = "GetMixFormat" -> "mixFormat"
      [] call = "Initialize" -> "eventHandle"
      [] call = "GetService" -> "captureClient"
      [] OTHER -> "none"

\* what the session holds when call k is about to be made
HeldBefore(k) ==
    { Acquires(SetupCalls[i]) : i \in 1..(k - 1) } \ {"none"}

\* the resources whose release is deferred by then: lines 94, 100, 106, 112,
\* 118, 124, 130, 156, 171
DeferredBefore(k) ==
    { Acquires(SetupCalls[i]) : i \in 1..(k - 1) } \ {"none"}

AllHandles == HeldBefore(Len(SetupCalls) + 1)

\* a return from startCapture runs the deferred releases registered so far
RunDefers(h, k) == h \ DeferredBefore(k)

\* lines 62-67: what the supervisor does with startCapture's result
AfterCapture(err) ==
    IF err = "canceled" THEN "exit"
    ELSE IF err # "nil" THEN "backoff"
    ELSE "select"

\* startCapture returns err to the supervisor from a point after call k - 1
Return(s, err, k) ==
    /\ held' = [held EXCEPT ![s] = RunDefers(@, k)]
    /\ supPc' = [supPc EXCEPT ![s] = AfterCapture(err)]

\* ------------------------------------------------------------ lifecycle
\* lines 47-73: Start makes a context and a done channel and spawns the
\* supervisor; it has no guard
Start ==
    /\ clientPc = "idle"
    /\ nStarts < MaxStarts
    /\ nStarts' = nStarts + 1
    /\ cancel' = nStarts + 1
    /\ done' = nStarts + 1
    /\ supPc' = [supPc EXCEPT ![nStarts + 1] = "select"]
    /\ UNCHANGED <<cfg, frontVars, other, clientPc, stopSignalled, ctxDone, held, isCapturing,
                   errorChan, sendChan, nFetched, pipeVars, nDispatched>>

\* lines 80-83: Stop cancels when v.cancel is set, then goes on to line 85
StopCall ==
    /\ clientPc = "idle"
    /\ IF cancel # NoSup
       THEN /\ ctxDone' = [ctxDone EXCEPT ![cancel] = TRUE]
            /\ cancel' = NoSup
       ELSE UNCHANGED <<ctxDone, cancel>>
    /\ stopSignalled' = (cancel # NoSup)
    /\ clientPc' = "recvDone"
    /\ UNCHANGED <<cfg, frontVars, other, done, nStarts, supPc, held, isCapturing, errorChan, sendChan,
                   nFetched, pipeVars, nDispatched>>

\* line 85 <-v.done meets line 56 v.done <- true on the same unbuffered
\* channel; a nil channel never delivers.  Lines 57 and 87 follow.
StopReturn ==
    /\ clientPc = "recvDone"
    /\ done # NoSup
    /\ \E s \in Sups :
        /\ supPc[s] = "sendDone"
        /\ sendChan[s] = done
        /\ supPc' = [supPc EXCEPT ![s] = "exit"]
    /\ clientPc' = "idle"
    /\ UNCHANGED <<cfg, frontVars, other, cancel, done, nStarts, stopSignalled, ctxDone, held,
                   isCapturing, errorChan, sendChan, nFetched, pipeVars, nDispatched>>

\* lines 53-60: the supervisor's select on ctx.Done() with a default case
SupSelect(s) ==
    /\ supPc[s] = "select"
    /\ IF ctxDone[s]
       THEN /\ supPc' = [supPc EXCEPT ![s] = "sendDone"]
            /\ sendChan' = [sendChan EXCEPT ![s] = done]
       ELSE /\ supPc' = [supPc EXCEPT ![s] = "setup"]
            /\ UNCHANGED sendChan
    /\ UNCHANGED <<cfg, frontVars, other, lifeVars, ctxDone, held, isCapturing, errorChan, nFetched,
                   pipeVars, nDispatched>>

\* line 66: the backoff sleep ends
Backoff(s) ==
    /\ supPc[s] = "backoff"
    /\ supPc' = [supPc EXCEPT ![s] = "select"]
    /\ UNCHANGED <<cfg, frontVars, other, lifeVars, ctxDone, held, isCapturing, errorChan, sendChan,
                   nFetched, pipeVars, nDispatched>>

\* lines 91-197: the session setup; call k fails, or every call succeeds
SetupFails(s) ==
    /\ supPc[s] = "setup"
    /\ \E k \in 1..Len(SetupCalls) :
        /\ held' = [held EXCEPT ![s] = RunDefers(HeldBefore(k), k)]
        /\ supPc' = [supPc EXCEPT ![s] = AfterCapture("setupErr")]
    /\ UNCHANGED <<cfg, frontVars, other, lifeVars, ctxDone, isCapturing, errorChan, sendChan, nFetched,
                   pipeVars, nDispatched>>

SetupSucceeds(s) ==
    /\ supPc[s] = "setup"
    /\ held' = [held EXCEPT ![s] = AllHandles]
    /\ isCapturing' = [isCapturing EXCEPT ![s] = TRUE]
    /\ errorChan' = [errorChan EXCEPT ![s] = "empty"]
    /\ supPc' = [supPc EXCEPT ![s] = "loop"]
    /\ UNCHANGED <<cfg, frontVars, other, lifeVars, ctxDone, sendChan, nFetched, pipeVars, nDispatched>>

\* lines 200-207: the top of the capture loop; when capturing it spawns the
\* goroutine that runs watchEvent and goes on to the select of line 209
LoopTop(s) ==
    /\ supPc[s] = "loop"
    /\ IF isCapturing[s]
       THEN /\ supPc' = [supPc EXCEPT ![s] = "wait"]
            /\ UNCHANGED errorChan
       ELSE /\ errorChan' = [errorChan EXCEPT ![s] = "closed"]
            /\ supPc' = [supPc EXCEPT ![s] = "acStop"]
    /\ UNCHANGED <<cfg, frontVars, other, lifeVars, ctxDone, held, isCapturing, sendChan, nFetched,
                   pipeVars, nDispatched>>

\* the watcher goroutine of supervisor s is running: spawned at line 205 and
\* not yet past its send at line 206
Watching(s) == supPc[s] \in {"wait", "drain"} /\ errorChan[s] = "empty"

\* a wait on the ready event that does not watch the context
WatchNeverCanceled(s) ==
    /\ Watching(s)
    /\ FALSE
    /\ UNCHANGED vars

\* lines 271-296: watchEvent.  The ready event is signalled (nil), the wait
\* fails ("waitErr"), or the context is done ("canceled", line 281).
WatchEventSignalled(s) ==
    /\ Watching(s)
    /\ errorChan' = [errorChan EXCEPT ![s] = "nil"]
    /\ UNCHANGED <<cfg, frontVars, other, lifeVars, supPc, ctxDone, held, isCapturing, sendChan, nFetched,
                   pipeVars, nDispatched>>

WatchEventFails(s) ==
    /\ Watching(s)
    /\ errorChan' = [errorChan EXCEPT ![s] = "waitErr"]
    /\ UNCHANGED <<cfg, frontVars, other, lifeVars, supPc, ctxDone, held, isCapturing, sendChan, nFetched,
                   pipeVars, nDispatched>>

WatchCanceled(s) ==
    /\ Watching(s)
    /\ ctxDone[s]
    /\ errorChan' = [errorChan EXCEPT ![s] = "canceled"]
    /\ UNCHANGED <<cfg, frontVars, other, lifeVars, supPc, ctxDone, held, isCapturing, sendChan, nFetched,
                   pipeVars, nDispatched>>

\* lines 210-211: the select takes case <-ctx.Done()
LoopCancel(s) ==
    /\ supPc[s] = "wait"
    /\ ctxDone[s]
    /\ isCapturing' = [isCapturing EXCEPT ![s] = FALSE]
    /\ supPc' = [supPc EXCEPT ![s] = "drain"]
    /\ UNCHANGED <<cfg, frontVars, other, lifeVars, ctxDone, held, errorChan, sendChan, nFetched,
                   pipeVars, nDispatched>>

\* lines 212-213: <-errorChan, then break loop
LoopDrain(s) ==
    /\ supPc[s] = "drain"
    /\ errorChan[s] # "empty"
    /\ errorChan' = [errorChan EXCEPT ![s] = "empty"]
    /\ supPc' = [supPc EXCEPT ![s] = "acStop"]
    /\ UNCHANGED <<cfg, frontVars, other, lifeVars, ctxDone, held, isCapturing, sendChan, nFetched,
                   pipeVars, nDispatched>>

\* lines 214-218: the select takes case err := <-errorChan
LoopRecv(s) ==
    /\ supPc[s] = "wait"
    /\ errorChan[s] # "empty"
    /\ errorChan' = [errorChan EXCEPT ![s] = "empty"]
    /\ IF errorChan[s] # "nil"
       THEN /\ isCapturing' = [isCapturing EXCEPT ![s] = FALSE]
            /\ supPc' = [supPc EXCEPT ![s] = "loop"]
       ELSE /\ supPc' = [supPc EXCEPT ![s] = "getBuffer"]
            /\ UNCHANGED isCapturing
    /\ UNCHANGED <<cfg, frontVars, other, lifeVars, ctxDone, held, sendChan, nFetched, pipeVars,
                   nDispatched>>

\* line 220: GetBuffer returns an error
GetBufferFails(s) ==
    /\ supPc[s] = "getBuffer"
    /\ supPc' = [supPc EXCEPT ![s] = "fetchErr"]
    /\ UNCHANGED <<cfg, frontVars, other, lifeVars, ctxDone, held, isCapturing, errorChan, sendChan,
                   nFetched, pipeVars, nDispatched>>

\* line 221: what the loop does with the error of GetBuffer: continue
FetchErrContinue(s) ==
    /\ supPc[s] = "fetchErr"
    /\ supPc' = [supPc EXCEPT ![s] = "loop"]
    /\ UNCHANGED <<cfg, frontVars, other, lifeVars, ctxDone, held, isCapturing, errorChan, sendChan,
                   nFetched, pipeVars, nDispatched>>

\* lines 224-231: GetBuffer returns no frames or a nil pointer: continue
GetBufferSkips(s) ==
    /\ supPc[s] = "getBuffer"
    /\ supPc' = [supPc EXCEPT ![s] = "loop"]
    /\ UNCHANGED <<cfg, frontVars, other, lifeVars, ctxDone, held, isCapturing, errorChan, sendChan,
                   nFetched, pipeVars, nDispatched>>

\* lines 220-247: GetBuffer returns data, which is copied and decoded
GetBufferData(s) ==
    /\ supPc[s] = "getBuffer"
    /\ nFetched < MaxFetch
    /\ nFetched' = nFetched + 1
    /\ supPc' = [supPc EXCEPT ![s] = "peak"]
    /\ UNCHANGED <<cfg, frontVars, other, lifeVars, ctxDone, held, isCapturing, errorChan, sendChan,
                   pipeVars, nDispatched>>

\* lines 249-253: GetPeakValue fails: continue
PeakFails(s) ==
    /\ supPc[s] = "peak"
    /\ supPc' = [supPc EXCEPT ![s] = "loop"]
    /\ UNCHANGED <<cfg, frontVars, other, lifeVars, ctxDone, held, isCapturing, errorChan, sendChan,
                   nFetched, pipeVars, nDispatched>>

\* a dispatch that waits for room in the output channel
DispatchWhenRoom(s) ==
    /\ supPc[s] = "peak"
    /\ Len(events) < Capacity
    /\ Spawn
    /\ supPc' = [supPc EXCEPT ![s] = "release"]
    /\ UNCHANGED <<cfg, frontVars, other, lifeVars, ctxDone, held, isCapturing, errorChan,
                   sendChan, nFetched, processing, pixs, events, arrivedBy, emitted>>

\* lines 249-255: the peak is read and the processing goroutine dispatched
Dispatch(s) ==
    /\ supPc[s] = "peak"
    /\ Spawn
    /\ supPc' = [supPc EXCEPT ![s] = "release"]
    /\ UNCHANGED <<cfg, frontVars, other, lifeVars, ctxDone, held, isCapturing, errorChan, sendChan,
                   nFetched, processing, pixs, events, arrivedBy, emitted>>

\* lines 257-259: ReleaseBuffer
ReleaseSucceeds(s) ==
    /\ supPc[s] = "release"
    /\ supPc' = [supPc EXCEPT ![s] = "loop"]
    /\ UNCHANGED <<cfg, frontVars, other, lifeVars, ctxDone, held, isCapturing, errorChan, sendChan,
                   nFetched, pipeVars, nDispatched>>

ReleaseFails(s) ==
    /\ supPc[s] = "release"
    /\ Return(s, "releaseErr", Len(SetupCalls) + 1)
    /\ UNCHANGED <<cfg, frontVars, other, lifeVars, ctxDone, isCapturing, errorChan, sendChan, nFetched,
                   pipeVars, nDispatched>>

\* lines 264-268: ac.Stop after the loop
AcStopSucceeds(s) ==
    /\ supPc[s] = "acStop"
    /\ Return(s, "nil", Len(SetupCalls) + 1)
    /\ UNCHANGED <<cfg, frontVars, other, lifeVars, ctxDone, isCapturing, errorChan, sendChan, nFetched,
                   pipeVars, nDispatched>>

AcStopFails(s) ==
    /\ supPc[s] = "acStop"
    /\ Return(s, "stopErr", Len(SetupCalls) + 1)
    /\ UNCHANGED <<cfg, frontVars, other, lifeVars, ctxDone, isCapturing, errorChan, sendChan, nFetched,
                   pipeVars, nDispatched>>

\* ------------------------------------------------------- specifications
InitCommon ==
    /\ cancel = NoSup
    /\ done = NoSup
    /\ nStarts = 0
    /\ clientPc = "idle"
    /\ stopSignalled = FALSE
    /\ supPc = [s \in Sups |-> "none"]
    /\ ctxDone = [s \in Sups |-> FALSE]
    /\ held = [s \in Sups |-> {}]
    /\ isCapturing = [s \in Sups |-> FALSE]
    /\ errorChan = [s \in Sups |-> "empty"]
    /\ sendChan = [s \in Sups |-> NoSup]
    /\ nFetched = 0
    /\ processing = FALSE
    /\ pixs = <<>>
    /\ events = <<>>
    /\ proc = [p \in Procs |-> NoProc]
    /\ nDispatched = 0
    /\ arrivedBy = <<>>
    /\ emitted = <<>>

\* no buffer has been fetched
NoBuffer ==
    /\ buf = <<>>
    /\ samples = <<>>
    /\ nPoints = 0
    /\ frontPc = "none"

\* the state after New: lines 579-597; this Visualizer is the only one
Init ==
    /\ cfg = DefaultConfig
    /\ InitCommon
    /\ NoBuffer
    /\ other = NoOther

PipeInit ==
    /\ cfg \in Configs
    /\ InitCommon
    /\ NoBuffer
    /\ other = NoOther

ProcessStep ==
    \E p \in Procs :
        \/ ProcessEnter(p)
        \/ ProcessHistory(p)
        \/ ProcessSmooth(p)
        \/ ProcessSend(p)
        \/ ProcessExit(p)

SupStep ==
    \E s \in Sups :
        \/ SupSelect(s)
        \/ Backoff(s)
        \/ SetupFails(s)
        \/ SetupSucceeds(s)
        \/ LoopTop(s)
        \/ WatchEventSignalled(s)
        \/ WatchEventFails(s)
        \/ WatchCanceled(s)
        \/ LoopCancel(s)
        \/ LoopDrain(s)
        \/ LoopRecv(s)
        \/ GetBufferFails(s)
        \/ FetchErrContinue(s)
        \/ GetBufferSkips(s)
        \/ GetBufferData(s)
        \/ PeakFails(s)
        \/ Dispatch(s)
        \/ ReleaseSucceeds(s)
        \/ ReleaseFails(s)
        \/ AcStopSucceeds(s)
        \/ AcStopFails(s)

Next ==
    \/ Start
    \/ StopCall
    \/ StopReturn
    \/ SupStep
    \/ ProcessStep
    \/ Consume

\* the whole program: client, supervisors, capture sessions, pipeline
Spec == Init /\ [][Next]_vars

LifeNext ==
    \/ Start
    \/ StopCall
    \/ StopReturn
    \/ SupStep

\* The lifecycle alone: the client, the supervisors and their capture
\* sessions.  Dispatched process goroutines are spawned and left unscheduled;
\* no action of LifeNext reads what they write.
LifeSpec == Init /\ [][LifeNext]_vars

\* The steps supervisor s takes by itself: its own statements and the
\* returns of the OS calls it makes.  The ready event (WatchEventSignalled,
\* WatchEventFails) is the environment's and is not among them.
SupProgress(s) ==
    \/ SupSelect(s)
    \/ Backoff(s)
    \/ SetupFails(s)
    \/ SetupSucceeds(s)
    \/ LoopTop(s)
    \/ LoopCancel(s)
    \/ LoopDrain(s)
    \/ LoopRecv(s)
    \/ GetBufferFails(s)
    \/ FetchErrContinue(s)
    \/ GetBufferSkips(s)
    \/ GetBufferData(s)
    \/ PeakFails(s)
    \/ Dispatch(s)
    \/ ReleaseSucceeds(s)
    \/ ReleaseFails(s)
    \/ AcStopSucceeds(s)
    \/ AcStopFails(s)

\* Scheduling: a goroutine that can take a step takes one; a select whose
\* case <-ctx.Done() is ready again and again takes it (Go chooses uniformly
\* among the ready cases); a rendezvous on v.done with both sides ready
\* completes.  Nothing obliges the client to call, nor the audio service to
\* signal the ready event.
LifeFairness ==
    /\ WF_vars(StopReturn)
    /\ \A s \in Sups :
        /\ WF_vars(SupProgress(s))
        /\ WF_vars(WatchCanceled(s))
        /\ SF_vars(LoopCancel(s))

FairLifeSpec == LifeSpec /\ LifeFairness

PipeNext ==
    \/ PipeDispatch
    \/ ProcessStep
    \/ Consume

\* the pipeline alone, under every configuration: process goroutines
\* dispatched in buffer order, as line 255 dispatches them
PipeSpec == PipeInit /\ [][PipeNext]_vars

\* two Visualizers were made by New
TwoInit ==
    /\ cfg = DefaultConfig
    /\ InitCommon
    /\ NoBuffer
    /\ other = [NoOther EXCEPT !.pc = "idle"]

OtherStep ==
    \/ OtherEnter
    \/ OtherHistory
    \/ OtherSmooth
    \/ OtherExit

TwoNext ==
    \/ PipeDispatch
    \/ ProcessStep
    \/ Consume
    \/ OtherStep

\* the pipelines of two Visualizers running in one process
TwoSpec == TwoInit /\ [][TwoNext]_vars

\* a buffer was fetched with data and copied: line 239
DecodeInit ==
    /\ cfg = DefaultConfig
    /\ InitCommon
    /\ other = NoOther
    /\ buf \in Buffers
    /\ samples = <<>>
    /\ nPoints = 0
    /\ frontPc = "copied"

DecodeNext ==
    \/ Decode
    \/ SpectrumAxis

\* the way of one buffer from the copy to the warped axis
DecodeSpec == DecodeInit /\ [][DecodeNext]_vars

\* The event built over a history of copies of frame f.
StillEvent(f) ==
    [Segments |-> Distribute(Smooth([i \in 1..cfg.windowSize |-> f], f), cfg.segments),
     by |-> 0]

\* A run in which the consumer has stopped reading, taken up where the
\* channel is one event short of full: Start was called once, the session
\* is open and the loop is at line 200; the calls of the buffers so far have
\* returned, their events (by |-> 0: calls before this point) wait in the
\* channel and their last windowSize frames are the history (the source has
\* played one steady sound, marker 1); the calls of the two latest buffers
\* are dispatched and not yet scheduled.  The logs
\* and counters start here.
StallInit ==
    /\ cfg = DefaultConfig
    /\ NoBuffer
    /\ other = NoOther
    /\ cancel = 1
    /\ done = 1
    /\ nStarts = 1
    /\ clientPc = "idle"
    /\ stopSignalled = FALSE
    /\ supPc = [s \in Sups |-> IF s = 1 THEN "loop" ELSE "none"]
    /\ ctxDone = [s \in Sups |-> FALSE]
    /\ held = [s \in Sups |-> IF s = 1 THEN AllHandles ELSE {}]
    /\ isCapturing = [s \in Sups |-> s = 1]
    /\ errorChan = [s \in Sups |-> "empty"]
    /\ sendChan = [s \in Sups |-> NoSup]
    /\ nFetched = 0
    /\ processing = FALSE
    /\ LET f == RawFrame(1, cfg.maxLedCount)
       IN  /\ pixs = [i \in 1..cfg.windowSize |-> f]
           /\ events = [i \in 1..(Capacity - 1) |-> StillEvent(f)]
    /\ proc = [p \in Procs |-> IF p <= 2 THEN [NoProc EXCEPT !.pc = "enter"] ELSE NoProc]
    /\ nDispatched = 2
    /\ arrivedBy = <<>>
    /\ emitted = <<>>

\* the client does not call Start again and nobody receives from Events()
StallNext ==
    \/ StopCall
    \/ StopReturn
    \/ SupStep
    \/ ProcessStep

StallSpec == StallInit /\ [][StallNext]_vars

FairStallSpec == StallSpec /\ LifeFairness


\* --------------------------------------------------------------- claims
InPipeline(p) == proc[p].pc \in {"history", "smooth", "send", "exit"}

Finished(p) == proc[p].pc \in {"done", "skipped"}

\* C1: on one Visualizer, at most one process call is between taking the
\* single-flight flag and returning, however many calls were dispatched; the
\* flag is set exactly while one is.
C1_SingleFlight ==
    /\ Cardinality({ p \in Procs : InPipeline(p) }) <= 1
    /\ processing <=> (\E p \in Procs : InPipeline(p))

\* one call is in the pipeline stages while two more are dispatched
C1_Witness ==
    \E p, q, r \in Procs :
        /\ p # q /\ q # r /\ p # r
        /\ proc[p].pc = "smooth"
        /\ proc[q].pc = "enter"
        /\ proc[r].pc = "enter"

\* C2: a Stop called before any Start is a no-op that does not block: its
\* receive at line 85 can complete.
C2_StopBeforeStartReturns ==
    (clientPc = "recvDone" /\ nStarts = 0) => ENABLED StopReturn

\* C3: a Stop called when already stopped (Start and a Stop that cancelled have
\* gone before, so this call finds v.cancel nil) does not block: its receive
\* at line 85 can complete.
C3_StopWhenStoppedReturns ==
    (clientPc = "recvDone" /\ nStarts > 0 /\ ~stopSignalled) => ENABLED StopReturn

\* a Stop call made after Start has returned and Start was not called since
Stopped == nStarts > 0 /\ cancel = NoSup /\ clientPc = "idle"

\* C4: when a Stop call made after Start has returned, no capture session is
\* open, no OS handle is held and no supervisor is left that could open a
\* session or retry.
C4_StopLeavesNothingRunning ==
    Stopped => \A s \in Sups : held[s] = {} /\ supPc[s] \in {"none", "exit"}

\* What the code does guarantee at that point: the supervisor of the latest
\* Start has unwound and exited.
StopUnwindsLatestSupervisor ==
    Stopped => held[nStarts] = {} /\ supPc[nStarts] = "exit"

\* C5: once Stop has signalled cancellation it eventually returns, whatever
\* the supervisor is doing, and without the ready event being signalled.
C5_StopReturns ==
    (clientPc = "recvDone" /\ stopSignalled) ~> (clientPc = "idle")

\* the capture loop took case <-ctx.Done() and its watcher returned on the
\* cancellation alone
C5_Witness ==
    /\ clientPc = "recvDone"
    /\ stopSignalled
    /\ \E s \in Sups : supPc[s] = "drain" /\ errorChan[s] = "canceled"

\* startCapture returns to the supervisor in this step
SessionExit(s) ==
    /\ supPc[s] \in {"setup", "release", "acStop"}
    /\ supPc'[s] \notin {supPc[s], "loop"}

\* C6: a session that ends while its context is not cancelled (a setup
\* failure, a ready-event wait failure, a buffer release failure) is followed
\* by the backoff sleep, never by a restart without it.
C6_BackoffBeforeRestart ==
    [][\A s \in Sups : (SessionExit(s) /\ ~ctxDone[s]) => supPc'[s] = "backoff"]_vars

\* the calls whose events were sent
EmittedBy == { emitted[i].by : i \in DOMAIN emitted }

ArrivedBy == { arrivedBy[i] : i \in DOMAIN arrivedBy }

\* C7: a call dispatched while another holds the flag is skipped: in the step
\* in which it finds the flag set it returns, emits nothing, leaves the
\* history and the flag as they are; it stays returned, and no event or
\* history entry is ever its own.
C7_SkippedCallHasNoEffect ==
    /\ [](\A p \in Procs : proc[p].pc = "skipped" => p \notin EmittedBy \cup ArrivedBy)
    /\ [][\A p \in Procs :
            /\ (proc[p].pc = "enter" /\ processing /\ proc'[p].pc # "enter")
                 => /\ proc'[p].pc = "skipped"
                    /\ processing'
                    /\ pixs' = pixs
                    /\ events' = events
                    /\ emitted' = emitted
            /\ proc[p].pc = "skipped" => proc'[p].pc = "skipped"]_vars

\* a call was skipped while another is in the pipeline stages
C7_Witness ==
    \E p, q \in Procs :
        /\ proc[q].pc = "skipped"
        /\ InPipeline(p)
        /\ pixs # <<>>

\* the byte range [from, from + n) of a frame, bytes numbered from 0
ByteRange(f, from, n) == SubSeq(f, from + 1, from + n)

\* the smoothed PixelFrame of the call that holds the flag: the history does
\* not change between its smoothing and its return
SmoothedOf(p) == Smooth(pixs, proc[p].pix)

EventBuilt(p) == proc[p].pc \in {"send", "exit"}

Min(a, b) == IF a < b THEN a ELSE b

\* the raw frames of the last k calls that appended to the history, oldest
\* first
LastArrived(k) ==
    [i \in 1..k |-> proc[arrivedBy[Len(arrivedBy) - k + i]].pix]

\* C9: the history holds at most windowSize frames and equals the most recent
\* min(n, windowSize) of the n frames appended so far, in arrival order.
C9_HistoryIsFIFO ==
    /\ Len(pixs) <= cfg.windowSize
    /\ pixs = LastArrived(Min(Len(arrivedBy), cfg.windowSize))

\* windowSize + 1 frames were appended and the evicted one, the oldest, is
\* none of those kept
C9_Witness ==
    /\ cfg.windowSize = MaxWindow
    /\ Len(arrivedBy) = cfg.windowSize + 1
    /\ \A i \in DOMAIN pixs : pixs[i] # proc[arrivedBy[1]].pix

\* the raw frames of a silent buffer and of a full-scale tone
SilentFrame == RawFrame(1, cfg.maxLedCount)

ToneFrame == RawFrame(2, cfg.maxLedCount)

\* three buffers were delivered (silent, tone, silent), window size 2, one
\* segment; every call has returned and the consumer has read the channel
C10_Scenario ==
    /\ Len(cfg.segments) = 1
    /\ cfg.windowSize = 2
    /\ nDispatched = 3
    /\ \A p \in 1..3 : Finished(p)
    /\ \A p \in {1, 3} : proc[p].pc = "done" => proc[p].pix = SilentFrame
    /\ proc[2].pc = "done" => proc[2].pix = ToneFrame
    /\ events = <<>>

\* the truncated blend of raw frame 2 (weight 1^2 + 2^2 = 5) and raw frame 3
\* (weight 2^2 + 2^2 = 8), cut to the segment
C10_Blend ==
    [j \in 1..(cfg.segments[1].Leds * BytesPerPixel) |->
        (5 * ToneFrame[j] + 8 * SilentFrame[j]) \div 13]

\* C10 as stated: exactly three events, the third the blend of frames 2 and 3.
C10_ThreeEvents ==
    C10_Scenario =>
        /\ Len(emitted) = 3
        /\ emitted[3].Segments[1].Pix = C10_Blend

\* C10 amended: between one and three events, one per call that took the
\* single-flight flag; when the three calls take it in buffer order there are
\* exactly three, and the third is the blend of frames 2 and 3.
C10_EventPerAdmittedBuffer ==
    C10_Scenario =>
        /\ Len(emitted) \in 1..3
        /\ Len(emitted) = Cardinality({ p \in 1..3 : proc[p].pc = "done" })
        /\ [i \in DOMAIN emitted |-> emitted[i].by] = arrivedBy
        /\ arrivedBy = <<1, 2, 3>> =>
            /\ Len(emitted) = 3
            /\ emitted[3].Segments[1].Pix = C10_Blend

\* the three calls ran one after another and three events were read
C10_Witness ==
    /\ C10_Scenario
    /\ arrivedBy = <<1, 2, 3>>
    /\ Len(emitted) = 3

\* the history holds L copies of one frame and the call that holds the
\* flag has smoothed over it
ConstantHistory(p) ==
    /\ EventBuilt(p)
    /\ \A i \in DOMAIN pixs : pixs[i] = proc[p].pix

\* C11: for every history length L from 1 to windowSize the weights
\* (i+1)^2 + L^2 increase strictly with the recency index i, and a history
\* of L copies of one frame smooths to that frame, byte for byte: the event
\* built over it carries the frame's own bytes.
C11_WeightsIncreaseAndConstantIsFixed ==
    /\ \A L \in 1..cfg.windowSize : \A i \in 0..(L - 2) :
            Weight(i, L) < Weight(i + 1, L)
    /\ \A p \in Procs :
            ConstantHistory(p) =>
                /\ SmoothedOf(p) = proc[p].pix
                /\ \A k \in DOMAIN cfg.segments :
                       proc[p].ev.Segments[k].Pix =
                           ByteRange(proc[p].pix, 0, BytesPerPixel * cfg.segments[k].Leds)

\* an event was built over a full window of two copies of one frame
C11_Witness ==
    \E p \in Procs :
        /\ ConstantHistory(p)
        /\ cfg.windowSize = MaxWindow
        /\ Len(pixs) = MaxWindow

\* C12: a GetBuffer error and a ReleaseBuffer error both end the capture
\* loop: the step the loop takes on either is the return of startCapture
\* with the error, which unwinds the session and sends the supervisor to its
\* backoff; the loop does not go round again.
C12_FetchOrReleaseErrorEndsLoop ==
    [][\A s \in Sups :
        /\ (supPc[s] = "fetchErr" /\ supPc'[s] # "fetchErr")
              => (supPc'[s] = "backoff" /\ held'[s] = {})
        /\ (supPc[s] = "release" /\ supPc'[s] \notin {"release", "loop"})
              => (supPc'[s] = "backoff" /\ held'[s] = {})]_vars

\* C13: a buffer fetched with data is handed back with ReleaseBuffer in the
\* same iteration: from the peak-meter read (line 250, the buffer fetched and
\* copied) the loop goes nowhere but to the ReleaseBuffer call of line 257,
\* whatever the read returns, and it does not wait for the processing call.
C13_FetchedBufferIsReleased ==
    [][\A s \in Sups :
        (supPc[s] = "peak" /\ supPc'[s] # "peak") => supPc'[s] = "release"]_vars

\* the channel is full and a process call is blocked on its send
Stalled ==
    /\ Len(events) = Capacity
    /\ \E p \in Procs : proc[p].pc = "send"

\* C14: while the channel is full and a call is blocked on the send, the
\* capture loop is not held up: at each of its statements the step it would
\* take next can be taken (the loop top, the cancellation case and the
\* ready-event case of the select, the fetch, the dispatch, the release); a
\* call entering meanwhile is dropped by the guard; and a Stop that has
\* signalled cancellation still returns.
C14_FullChannelDoesNotStallCapture ==
    /\ [](Stalled =>
            \A s \in Sups :
                /\ supPc[s] = "loop" => ENABLED LoopTop(s)
                /\ (supPc[s] = "wait" /\ ctxDone[s]) => ENABLED LoopCancel(s)
                /\ (supPc[s] = "wait" /\ errorChan[s] # "empty") => ENABLED LoopRecv(s)
                /\ supPc[s] = "getBuffer" => ENABLED GetBufferSkips(s)
                /\ (supPc[s] = "getBuffer" /\ nFetched < MaxFetch) => ENABLED GetBufferData(s)
                /\ supPc[s] = "peak" => ENABLED Dispatch(s)
                /\ supPc[s] = "release" => ENABLED ReleaseSucceeds(s))
    /\ [][\A p \in Procs :
            (Stalled /\ proc[p].pc = "enter" /\ proc'[p].pc # "enter")
                => (proc'[p].pc = "skipped" /\ events' = events)]_vars
    /\ ((Stalled /\ clientPc = "recvDone" /\ stopSignalled) ~> (clientPc = "idle"))

\* with the channel full and a call blocked, a later buffer was fetched,
\* dispatched and dropped, and Stop has returned
C14_Witness ==
    /\ Stalled
    /\ nFetched > 0
    /\ \E p \in Procs : p > 2 /\ proc[p].pc = "skipped"
    /\ stopSignalled
    /\ clientPc = "idle"
    /\ supPc[1] = "exit"

\* the value of the i-th 4-byte unit of the buffer, units numbered from 0
UnitValue(b, i) == readInt32(ByteRange(b, SampleStride * i, SampleStride))

\* C15: the samples handed to process are the little-endian signed 32-bit
\* values of the consecutive 4-byte units of buf, in order: len(buf)/4 of
\* them, the i-th read from bytes [4i, 4i+4), nothing before or after.
C15_SamplesAreBufferUnits ==
    frontPc \in {"decoded", "axis"} =>
        /\ Len(samples) = Len(buf) \div SampleStride
        /\ \A i \in 0..(Len(buf) \div SampleStride - 1) :
               samples[i + 1] = UnitValue(buf, i)

\* C16: when SpanLog computes an axis point (nPoints >= 1) its divisor
\* nPoints - 1 is not 0, for every dispatched buffer of one frame or more.
C16_AxisDivisorNonZero ==
    (frontPc = "axis" /\ nPoints >= 1) => nPoints - 1 # 0

\* the calls that appended the frames now in the history, oldest first
HistoryOwners == SubSeq(arrivedBy, Len(arrivedBy) - Len(pixs) + 1, Len(arrivedBy))

\* a call has appended its frame to the history and has yet to read the
\* history for its smoothing
OnHistory(pc) == pc = "smooth"

\* C17: with two Visualizers in one process the History is each one's own:
\* the history a call of this Visualizer smooths over holds frames of this
\* Visualizer's calls only, the other Visualizer's smoothing sees none of
\* this one's, and the two are never on the History at the same time.
C17_HistoryIsPerInstance ==
    /\ \A p \in Procs :
          proc[p].pc = "smooth" =>
              \A i \in DOMAIN HistoryOwners : HistoryOwners[i] # 0
    /\ other.pc = "smooth" =>
          \A i \in DOMAIN HistoryOwners : HistoryOwners[i] = 0
    /\ ~(OnHistory(other.pc) /\ \E p \in Procs : OnHistory(proc[p].pc))

\* C18: the events are sent in the order in which their buffers were fetched
\* (calls are numbered in dispatch order, one per buffer): of two buffers
\* that both produce an event, the earlier one's event is sent first.
C18_EventsInFetchOrder ==
    \A i, j \in DOMAIN emitted :
        i < j => emitted[i].by < emitted[j].by

\* Start was called once and a Stop that cancelled its supervisor has
\* returned
StopReturned ==
    /\ nStarts = 1
    /\ stopSignalled
    /\ clientPc = "idle"

\* C19: when Stop has returned, no process call dispatched by the stopped
\* capture loop is waiting to run, running or blocked on its send, so that
\* no event is sent and the history is not touched after Stop.
C19_StopLeavesNoProcessing ==
    StopReturned =>
        \A p \in Procs : proc[p].pc \in {"none", "done", "skipped"}

\* supervisor s has been spawned and has not returned
Running(s) == supPc[s] \notin {"none", "exit"}

\* C20: at most one supervisor goroutine exists and at most one capture
\* session is open, and every running supervisor can be stopped by a later
\* Stop: v.cancel is its cancel function, or it has been cancelled already.
C20_OneStoppableSupervisor ==
    /\ Cardinality({ s \in Sups : Running(s) }) <= 1
    /\ Cardinality({ s \in Sups : held[s] # {} }) <= 1
    /\ \A s \in Sups : Running(s) => (cancel = s \/ ctxDone[s])

=============================================================================
